---- MODULE Spec2Model ----
(***************************************************************************)
(* A model of zerovolts/minesweeper: the minefield (src/src/grid.rs) and   *)
(* the play-state controller (src/src/game.rs).                            *)
(*                                                                         *)
(* Four specifications are given.                                          *)
(*   SpecGrid  drives the public operations of Grid directly (place_mine,  *)
(*             uncover, toggle_flag, get) with any coordinate, in or out   *)
(*             of bounds, starting from Grid::new.                         *)
(*   SpecFill  runs one uncover call as the steps of its recursion, the     *)
(*             neighbours of a cell taken in any order.                    *)
(*   SpecUncover runs toggle_flag and uncover calls, every uncover call    *)
(*             step by step in the order of the code, under fairness.      *)
(*   Spec      is the running game: a board populated the way main() does  *)
(*             it, then mouse-button events delivered to                   *)
(*             GameState::mouse_button_down_event.                         *)
(* A Rust panic (Option::unwrap on None) ends the program: it is modelled  *)
(* by crashed = TRUE, after which no action is enabled.                    *)
(***************************************************************************)
EXTENDS Integers, Sequences, FiniteSets

VARIABLES
    cells,        \* Grid.cells: index -> [state, has_mine, neighboring_mines]
    crashed,      \* TRUE once an unwrap() has panicked
    last,         \* the most recent call of a Grid operation and what it returned
    placed,       \* history: index -> number of place_mine calls made on that cell
    streak,       \* history: the run of toggle_flag calls on one cell that `last` ends
    calls,        \* history: number of Grid calls (SpecGrid) or mouse events (Spec) made
    play_state,   \* GameState.play_state
    turns,        \* GameState.turns
    total_flags,  \* GameState.total_flags
    total_mines,  \* GameState.total_mines
    now,          \* the latest value time_since_start(ctx) has returned
    ev,           \* the most recent mouse event, the play state it met, and the
                  \* play state at the point where the handler calls into the grid
    eligible,     \* history: left-clicks on the playable area met in Unstarted or Playing
    fill,         \* SpecFill, SpecUncover: the uncover call in progress, as its stack of loop frames
    overflow_checks  \* the build's integer overflow checks: "on" (debug), "off"
                  \* (release), "unknown" while no addition has overflowed

vars == <<cells, crashed, last, placed, streak, calls, play_state, turns, total_flags,
          total_mines, now, ev, eligible, fill, overflow_checks>>

gameVars == <<play_state, turns, total_flags, total_mines, now, ev, eligible>>

----------------------------------------------------------------------------
(* Bounds of the model *)

\* Grid.width and Grid.height of the board under check (main() uses 32 x 32).
Width == 3
Height == 2
\* The largest number of place_mine calls made on one board.
MaxMines == 2
\* The largest number of uncover / toggle_flag / get calls made in SpecGrid, and
\* of mouse events delivered in Spec.
MaxCalls == 3
\* The largest value time_since_start returns.
MaxTime == 1
\* The largest number of cells flagged before the uncover call of SpecFill.
MaxFlags == 1

----------------------------------------------------------------------------
(* Program constants *)

UI_SCALE == 4
\* Sprites are 8 pixels wide and high; the HUD is 3 sprites (24 pixels) high.
SpritePx == 8
HudSprites == 3
\* neighboring_mines is a u8.
U8Mod == 256

Covered == "Covered"
Exposed == "Exposed"
Flagged == "Flagged"
CellState == {Covered, Exposed, Flagged}

InProgress == "InProgress"
Cleared == "Cleared"
Detonated == "Detonated"
BoardState == {InProgress, Cleared, Detonated}

NEIGHBOR_OFFSETS ==
    << <<-1, -1>>, <<0, -1>>, <<1, -1>>, <<1, 0>>,
       <<1, 1>>, <<0, 1>>, <<-1, 1>>, <<-1, 0>> >>

----------------------------------------------------------------------------
(* Grid *)

Indices == 0 .. (Width * Height - 1)

\* Cell::new
CellNew(state, has_mine, neighboring_mines) ==
    [state |-> state, has_mine |-> has_mine, neighboring_mines |-> neighboring_mines]

\* Grid::new: every cell Covered, no mine, count 0.
GridNew == [i \in Indices |-> CellNew(Covered, FALSE, 0)]

\* Grid::coord_to_index. Option<usize> is a sequence: <<i>> is Some(i), <<>> is None.
coord_to_index(x, y) ==
    IF x >= 0 /\ x < Width /\ y >= 0 /\ y < Height
    THEN << x + y * Width >>
    ELSE << >>

IsSome(o) == Len(o) = 1
\* Option::unwrap, used only where IsSome holds (the panic is the actions' crashed).
Unwrap(o) == o[1]

\* Grid::get
get(g, x, y) ==
    IF IsSome(coord_to_index(x, y))
    THEN << g[Unwrap(coord_to_index(x, y))] >>
    ELSE << >>

\* Grid::get_neighbors, as the sequence of the indices of the cells it returns,
\* built over NEIGHBOR_OFFSETS[k..8]. Every iteration is skipped at (0,0).
RECURSIVE NeighborsFrom(_, _, _)
NeighborsFrom(x, y, k) ==
    IF k > Len(NEIGHBOR_OFFSETS) THEN << >>
    ELSE LET o == coord_to_index(x + NEIGHBOR_OFFSETS[k][1], y + NEIGHBOR_OFFSETS[k][2])
         IN  IF x = 0 /\ y = 0 THEN NeighborsFrom(x, y, k + 1)
             ELSE o \o NeighborsFrom(x, y, k + 1)

get_neighbors(x, y) == NeighborsFrom(x, y, 1)

\* The u8 `+= 1` of place_mine's second loop, as an Option: <<n + 1>> while it
\* fits; at 255 the addition overflows, which panics when the build checks
\* overflow (checks = TRUE, << >>) and wraps to 0 when it does not.
IncU8(n, checks) ==
    IF n + 1 < U8Mod THEN << n + 1 >>
    ELSE IF checks THEN << >>
    ELSE << (n + 1) % U8Mod >>

\* The second loop of place_mine over NEIGHBOR_OFFSETS[k..8]: one more mine next
\* to every in-bounds neighbour. Every iteration is skipped at (0,0). The loop
\* ends at the increment that panics, with the cells written so far.
RECURSIVE IncNeighborsFrom(_, _, _, _, _)
IncNeighborsFrom(g, x, y, k, checks) ==
    IF k > Len(NEIGHBOR_OFFSETS) THEN [cells |-> g, panicked |-> FALSE]
    ELSE LET o == coord_to_index(x + NEIGHBOR_OFFSETS[k][1], y + NEIGHBOR_OFFSETS[k][2])
         IN  IF x = 0 /\ y = 0 THEN IncNeighborsFrom(g, x, y, k + 1, checks)
             ELSE IF IsSome(o)
             THEN LET n == IncU8(g[Unwrap(o)].neighboring_mines, checks)
                  IN  IF IsSome(n)
                      THEN IncNeighborsFrom(
                               [g EXCEPT ![Unwrap(o)].neighboring_mines = Unwrap(n)],
                               x, y, k + 1, checks)
                      ELSE [cells |-> g, panicked |-> TRUE]
             ELSE IncNeighborsFrom(g, x, y, k + 1, checks)

\* The number of cells of get_neighbors that have a mine.
MinedAmong(g, ns) == Len(SelectSeq(ns, LAMBDA i : g[i].has_mine))

\* Grid::place_mine on an in-bounds cell: the cells it leaves, and whether an
\* increment panicked (then the call does not return).
place_mine(g, x, y, checks) ==
    LET index == Unwrap(coord_to_index(x, y))
        g1 == [g EXCEPT ![index].has_mine = TRUE]
        g2 == [g1 EXCEPT ![index].neighboring_mines =
                             MinedAmong(g1, get_neighbors(x, y)) % U8Mod]
    IN  IncNeighborsFrom(g2, x, y, 1, checks)

\* uncover_bombs with a slip: the revealed mines are taken off the board.
uncover_bombs_defusing(g) ==
    [i \in Indices |->
        IF g[i].has_mine = TRUE
        THEN [g[i] EXCEPT !.state = Exposed, !.has_mine = FALSE]
        ELSE g[i]]

\* uncover_bombs with a slip: it reveals only the mines that are still Covered.
uncover_bombs_covered_only(g) ==
    [i \in Indices |-> IF g[i].has_mine = TRUE /\ g[i].state = Covered
                       THEN [g[i] EXCEPT !.state = Exposed]
                       ELSE g[i]]

\* Grid::uncover_bombs
uncover_bombs(g) ==
    [i \in Indices |-> IF g[i].has_mine = TRUE
                       THEN [g[i] EXCEPT !.state = Exposed]
                       ELSE g[i]]

\* RecurseInto with a slip: every cell that is not Exposed is recursed into.
RecurseInto_not_exposed(c) == c.state # Exposed /\ c.has_mine = FALSE

\* The condition under which uncover recurses into a neighbour.
RecurseInto(c) == c.state = Covered /\ c.has_mine = FALSE

\* Expands with a slip: the count of the exposed cell is not looked at.
Expands_any_count(c) == c.has_mine = FALSE

\* The condition under which uncover looks at the neighbours of the cell it exposed.
Expands(c) == c.neighboring_mines = 0 /\ c.has_mine = FALSE

\* Expose with a slip: the cell is not marked.
Expose_forgotten(g, index) == g

\* self.cells[index].state = CellState::Exposed, the first statement of uncover.
Expose(g, index) == [g EXCEPT ![index].state = Exposed]

\* Grid::uncover on an in-bounds cell: the cells after the call. UncoverFrom is
\* the loop over NEIGHBOR_OFFSETS[k..8], in the order of the array.
RECURSIVE uncover_cells(_, _, _), UncoverFrom(_, _, _, _)
uncover_cells(g, x, y) ==
    LET index == Unwrap(coord_to_index(x, y))
        g1 == Expose(g, index)
    IN  IF g1[index].has_mine = TRUE THEN uncover_bombs(g1)
        ELSE IF Expands(g1[index]) THEN UncoverFrom(g1, x, y, 1)
        ELSE g1

UncoverFrom(g, x, y, k) ==
    IF k > Len(NEIGHBOR_OFFSETS) THEN g
    ELSE LET nx == x + NEIGHBOR_OFFSETS[k][1]
             ny == y + NEIGHBOR_OFFSETS[k][2]
             o == coord_to_index(nx, ny)
         IN  IF IsSome(o) /\ RecurseInto(g[Unwrap(o)])
             THEN UncoverFrom(uncover_cells(g, nx, ny), x, y, k + 1)
             ELSE UncoverFrom(g, x, y, k + 1)

\* Grid::uncover on an in-bounds cell: the BoardState it returns.
uncover_ret(g, x, y) ==
    IF g[Unwrap(coord_to_index(x, y))].has_mine = TRUE THEN Detonated ELSE InProgress

\* toggle_flag with a slip: the second arm takes every state but Covered.
toggle_flag_recovers(g, x, y) ==
    LET index == Unwrap(coord_to_index(x, y))
    IN  IF g[index].state = Covered
        THEN [cells |-> [g EXCEPT ![index].state = Flagged], ret |-> 1]
        ELSE [cells |-> [g EXCEPT ![index].state = Covered], ret |-> -1]

\* toggle_flag with a slip: every cell that is not Flagged is flagged.
toggle_flag_any_state(g, x, y) ==
    LET index == Unwrap(coord_to_index(x, y))
    IN  IF g[index].state = Flagged
        THEN [cells |-> [g EXCEPT ![index].state = Covered], ret |-> -1]
        ELSE [cells |-> [g EXCEPT ![index].state = Flagged], ret |-> 1]

\* toggle_flag with a slip: the Flagged arm is missing.
toggle_flag_no_unflag(g, x, y) ==
    LET index == Unwrap(coord_to_index(x, y))
    IN  IF g[index].state = Covered
        THEN [cells |-> [g EXCEPT ![index].state = Flagged], ret |-> 1]
        ELSE [cells |-> g, ret |-> 0]

\* Grid::toggle_flag on an in-bounds cell: the cells after the call and the delta.
toggle_flag(g, x, y) ==
    LET index == Unwrap(coord_to_index(x, y))
    IN  IF g[index].state = Flagged
        THEN [cells |-> [g EXCEPT ![index].state = Covered], ret |-> -1]
        ELSE IF g[index].state = Covered
        THEN [cells |-> [g EXCEPT ![index].state = Flagged], ret |-> 1]
        ELSE [cells |-> g, ret |-> 0]

----------------------------------------------------------------------------
(* The record of the latest call of a Grid operation *)

\* op, its arguments, what it returned ("panic" when unwrap panicked), and the
\* state and has_mine of the target cell before the call (for an in-bounds target).
Call(op, x, y, ret, g) ==
    [op |-> op, x |-> x, y |-> y, ret |-> ret,
     pre |-> IF IsSome(coord_to_index(x, y))
             THEN g[Unwrap(coord_to_index(x, y))].state ELSE "none",
     mine |-> IF IsSome(coord_to_index(x, y))
              THEN g[Unwrap(coord_to_index(x, y))].has_mine ELSE FALSE]

NoCall == [op |-> "none", x |-> 0, y |-> 0, ret |-> "none", pre |-> "none", mine |-> FALSE]

NoEvent ==
    [button |-> "none", playable |-> FALSE, pre |-> "none",
     mid |-> [kind |-> "Unstarted", time |-> 0]]

\* The run of consecutive toggle_flag calls on one in-bounds cell that started
\* with the cell Covered: its length n (0 when the latest call ends no such run;
\* a run is cut at 2), the sum of the deltas returned, the cells before the run.
NoStreak == [n |-> 0, sum |-> 0, before |-> GridNew]

\* The run after toggle_flag(x, y) on an in-bounds cell has returned delta.
StreakAfter(x, y, delta) ==
    IF last.op = "toggle_flag" /\ last.x = x /\ last.y = y /\ streak.n = 1
    THEN [n |-> 2, sum |-> streak.sum + delta, before |-> streak.before]
    ELSE IF cells[Unwrap(coord_to_index(x, y))].state = Covered
    THEN [n |-> 1, sum |-> delta, before |-> cells]
    ELSE NoStreak

\* No uncover call in progress. A call in progress is: its phase ("running", then
\* "done"), its arguments, the state and has_mine of its target and the cells
\* before it, the stack of the frames of uncover that are in their loop (x, y and
\* the in-bounds offsets the loop has not taken yet), and how often each cell was entered.
NoFill ==
    [phase |-> "idle", x |-> 0, y |-> 0, pre |-> "none", mine |-> FALSE,
     before |-> GridNew, stack |-> << >>, entered |-> [i \in Indices |-> 0]]

\* Coordinates a caller of Grid may pass: the board and one cell around it.
CoordX == -1 .. Width
CoordY == -1 .. Height

RECURSIVE SumTo(_, _)
SumTo(f, n) == IF n < 0 THEN 0 ELSE f[n] + SumTo(f, n - 1)
Placements == SumTo(placed, Width * Height - 1)

----------------------------------------------------------------------------
(* SpecGrid: the operations of Grid called directly *)

Unstarted == [kind |-> "Unstarted", time |-> 0]
Playing(t) == [kind |-> "Playing", time |-> t]
Won(t) == [kind |-> "Won", time |-> t]
Lost(t) == [kind |-> "Lost", time |-> t]

\* GameState::new
GameNew(mines) ==
    /\ total_mines = mines
    /\ total_flags = 0
    /\ turns = 0
    /\ play_state = Unstarted
    /\ now = 0
    /\ ev = NoEvent
    /\ eligible = 0

InitGrid ==
    /\ cells = GridNew
    /\ crashed = FALSE
    /\ last = NoCall
    /\ placed = [i \in Indices |-> 0]
    /\ streak = NoStreak
    /\ calls = 0
    /\ fill = NoFill
    /\ overflow_checks = "unknown"
    /\ GameNew(0)

\* The overflow checks the build can have, given what the run has shown so far.
ChecksOfBuild ==
    IF overflow_checks = "unknown" THEN BOOLEAN ELSE {overflow_checks = "on"}

\* grid.place_mine(x, y), made before the board is played on.
GridPlaceMine(x, y) ==
    /\ ~crashed
    /\ calls = 0
    /\ Placements < MaxMines
    /\ IF IsSome(coord_to_index(x, y))
       THEN \E checks \in ChecksOfBuild :
               LET r == place_mine(cells, x, y, checks)
               IN  /\ cells' = r.cells
                   /\ placed' = [placed EXCEPT ![Unwrap(coord_to_index(x, y))] = @ + 1]
                   /\ last' = Call("place_mine", x, y,
                                   IF r.panicked THEN "panic" ELSE "unit", cells)
                   /\ crashed' = r.panicked
                   /\ overflow_checks' =
                          IF ~place_mine(cells, x, y, TRUE).panicked THEN overflow_checks
                          ELSE IF checks THEN "on" ELSE "off"
       ELSE /\ crashed' = TRUE
            /\ last' = Call("place_mine", x, y, "panic", cells)
            /\ UNCHANGED <<cells, placed, overflow_checks>>
    /\ streak' = NoStreak
    /\ UNCHANGED calls
    /\ UNCHANGED <<gameVars, fill>>

\* grid.uncover(x, y)
GridUncover(x, y) ==
    /\ ~crashed
    /\ calls < MaxCalls
    /\ calls' = calls + 1
    /\ IF IsSome(coord_to_index(x, y))
       THEN /\ cells' = uncover_cells(cells, x, y)
            /\ last' = Call("uncover", x, y, uncover_ret(cells, x, y), cells)
            /\ UNCHANGED crashed
       ELSE /\ crashed' = TRUE
            /\ last' = Call("uncover", x, y, "panic", cells)
            /\ UNCHANGED cells
    /\ streak' = NoStreak
    /\ UNCHANGED <<placed, overflow_checks>>
    /\ UNCHANGED <<gameVars, fill>>

\* grid.toggle_flag(x, y)
GridToggleFlag(x, y) ==
    /\ ~crashed
    /\ calls < MaxCalls
    /\ calls' = calls + 1
    /\ IF IsSome(coord_to_index(x, y))
       THEN /\ cells' = toggle_flag(cells, x, y).cells
            /\ last' = Call("toggle_flag", x, y, toggle_flag(cells, x, y).ret, cells)
            /\ streak' = StreakAfter(x, y, toggle_flag(cells, x, y).ret)
            /\ UNCHANGED crashed
       ELSE /\ crashed' = TRUE
            /\ last' = Call("toggle_flag", x, y, "panic", cells)
            /\ streak' = NoStreak
            /\ UNCHANGED cells
    /\ UNCHANGED <<placed, overflow_checks>>
    /\ UNCHANGED <<gameVars, fill>>

\* grid.get(x, y): "some" or "none", never a panic, and no change of the board.
GridGet(x, y) ==
    /\ ~crashed
    /\ calls < MaxCalls
    /\ calls' = calls + 1
    /\ last' = Call("get", x, y, IF IsSome(get(cells, x, y)) THEN "some" ELSE "none", cells)
    /\ streak' = NoStreak
    /\ UNCHANGED <<cells, crashed, placed, overflow_checks>>
    /\ UNCHANGED <<gameVars, fill>>

\* grid.uncover_bombs(): no argument, returns (), never a panic.
GridUncoverBombs ==
    /\ ~crashed
    /\ calls < MaxCalls
    /\ calls' = calls + 1
    /\ cells' = uncover_bombs(cells)
    /\ last' = [NoCall EXCEPT !.op = "uncover_bombs", !.ret = "unit"]
    /\ streak' = NoStreak
    /\ UNCHANGED <<crashed, placed, overflow_checks>>
    /\ UNCHANGED <<gameVars, fill>>

NextGrid ==
    \/ \E x \in CoordX, y \in CoordY :
          \/ GridPlaceMine(x, y)
          \/ GridUncover(x, y)
          \/ GridToggleFlag(x, y)
          \/ GridGet(x, y)
    \/ GridUncoverBombs

SpecGrid == InitGrid /\ [][NextGrid]_vars

----------------------------------------------------------------------------
(* Spec: the game. main() populates the board, then events are delivered *)

\* main(): for x in 0..width, for y in 0..height, place a mine on the cells a
\* random draw selects. S is the set of indices drawn; n counts the iterations.
\* Each cell is placed on at most once, so no count passes 8 and no increment
\* overflows in either build.
RECURSIVE PopulateFrom(_, _, _)
PopulateFrom(g, S, n) ==
    IF n >= Width * Height THEN g
    ELSE LET x == n \div Height
             y == n % Height
         IN  IF Unwrap(coord_to_index(x, y)) \in S
             THEN PopulateFrom(place_mine(g, x, y, FALSE).cells, S, n + 1)
             ELSE PopulateFrom(g, S, n + 1)

Populate(S) == PopulateFrom(GridNew, S, 0)

MineSets == {S \in SUBSET Indices : Cardinality(S) <= MaxMines}

Init ==
    \E S \in MineSets :
        /\ cells = Populate(S)
        /\ placed = [i \in Indices |-> IF i \in S THEN 1 ELSE 0]
        /\ crashed = FALSE
        /\ last = NoCall
        /\ streak = NoStreak
        /\ calls = 0
        /\ fill = NoFill
        /\ overflow_checks = "unknown"
        /\ GameNew(Cardinality(S))

\* The side of a cell on the screen, and the height of the HUD above the board.
CellPx == SpritePx * UI_SCALE
HudPx == HudSprites * SpritePx * UI_SCALE

\* The window main() opens: the board below the HUD.
WindowWidth == Width * CellPx
WindowHeight == Height * CellPx + HudPx

\* Pixel positions of the events checked: the first and the last pixel of every
\* column and row of cells, and in the HUD the rows where grid_y changes.
PixelXs == {k * CellPx + o : k \in 0 .. (Width - 1), o \in {0, CellPx - 1}}
PixelYs == {0, HudPx - CellPx, HudPx - CellPx + 1, HudPx - 1}
           \cup {HudPx + k * CellPx + o : k \in 0 .. (Height - 1), o \in {0, CellPx - 1}}

\* `as i32` of a quotient of integers: rounding towards zero.
TruncDiv(a, b) == IF a >= 0 THEN a \div b ELSE -((-a) \div b)

\* grid_x = (x / (8. * UI_SCALE)) as i32
GridX(px) == TruncDiv(px, CellPx)
\* grid_y = (y / (8. * UI_SCALE) - 3.) as i32
GridY(py) == TruncDiv(py - HudSprites * CellPx, CellPx)

\* y >= (24. * UI_SCALE)
Playable(py) == py >= HudPx

\* mid is play_state as it is after the Unstarted test of the Left arm (for the
\* other events, as the event met it).
Event(button, py, mid) ==
    [button |-> button, playable |-> Playable(py), pre |-> play_state.kind, mid |-> mid]

\* StartClock with a slip: the clock is never started.
StartClock_never(ps, t) == ps

\* if self.play_state == PlayState::Unstarted { self.play_state = Playing(t) }
StartClock(ps, t) == IF ps = Unstarted THEN Playing(t) ELSE ps

Processed == IF play_state.kind \in {"Unstarted", "Playing"} THEN 1 ELSE 0

\* AfterUncover with a slip: the Detonated arm is empty.
AfterUncover_no_loss(ps, ret, t) ==
    IF ret = Cleared THEN Won(t)
    ELSE ps

\* The play state after the match on the BoardState uncover returned: ps is the
\* play state before the call, t the time read in the arm taken.
AfterUncover(ps, ret, t) ==
    IF ret = Cleared THEN Won(t)
    ELSE IF ret = Detonated THEN Lost(t)
    ELSE ps

\* mouse_button_down_event, MouseButton::Left. t1 and t2 are what the two calls
\* of time_since_start return when they are made.
LeftClick(px, py) ==
    /\ ~crashed
    /\ calls < MaxCalls
    /\ calls' = calls + 1
    /\ streak' = NoStreak
    /\ UNCHANGED fill
    /\ IF ~Playable(py)
       THEN /\ ev' = Event("left", py, play_state)
            /\ last' = NoCall
            /\ UNCHANGED <<cells, crashed, placed, overflow_checks, play_state, turns, total_flags,
                           total_mines, now, eligible>>
       ELSE /\ \E t1 \in now .. MaxTime : \E t2 \in t1 .. MaxTime :
                 LET x == GridX(px)
                     y == GridY(py)
                     fresh == play_state = Unstarted
                     ps1 == StartClock(play_state, t1)
                     n1 == IF fresh THEN t1 ELSE now
                 IN  /\ ev' = Event("left", py, ps1)
                     /\ eligible' = eligible + Processed
                     /\ IF IsSome(coord_to_index(x, y))
                        THEN LET ret == uncover_ret(cells, x, y)
                             IN  /\ cells' = uncover_cells(cells, x, y)
                                 /\ last' = Call("uncover", x, y, ret, cells)
                                 /\ play_state' = AfterUncover(ps1, ret, t2)
                                 /\ now' = IF ret = InProgress THEN n1 ELSE t2
                                 /\ turns' = turns + 1
                                 /\ UNCHANGED crashed
                        ELSE /\ crashed' = TRUE
                             /\ last' = Call("uncover", x, y, "panic", cells)
                             /\ play_state' = ps1
                             /\ now' = n1
                             /\ UNCHANGED <<cells, turns>>
                     /\ UNCHANGED <<placed, overflow_checks, total_flags, total_mines>>

\* AddFlags with a slip: -= for +=.
AddFlags_sub(n, delta) == n - delta

\* self.total_flags += delta
AddFlags(n, delta) == n + delta

\* mouse_button_down_event, MouseButton::Right
RightClick(px, py) ==
    /\ ~crashed
    /\ calls < MaxCalls
    /\ calls' = calls + 1
    /\ ev' = Event("right", py, play_state)
    /\ UNCHANGED fill
    /\ LET x == GridX(px)
           y == GridY(py)
       IN  IF IsSome(coord_to_index(x, y))
           THEN /\ cells' = toggle_flag(cells, x, y).cells
                /\ total_flags' = AddFlags(total_flags, toggle_flag(cells, x, y).ret)
                /\ last' = Call("toggle_flag", x, y, toggle_flag(cells, x, y).ret, cells)
                /\ streak' = StreakAfter(x, y, toggle_flag(cells, x, y).ret)
                /\ UNCHANGED crashed
           ELSE /\ crashed' = TRUE
                /\ last' = Call("toggle_flag", x, y, "panic", cells)
                /\ streak' = NoStreak
                /\ UNCHANGED <<cells, total_flags>>
    /\ UNCHANGED <<placed, overflow_checks, play_state, turns, total_mines, now, eligible>>

\* mouse_button_down_event, any other button
OtherClick(px, py) ==
    /\ ~crashed
    /\ calls < MaxCalls
    /\ calls' = calls + 1
    /\ ev' = Event("other", py, play_state)
    /\ UNCHANGED fill
    /\ last' = NoCall
    /\ streak' = NoStreak
    /\ UNCHANGED <<cells, crashed, placed, overflow_checks, play_state, turns, total_flags,
                   total_mines, now, eligible>>

Next ==
    \E px \in PixelXs, py \in PixelYs :
        \/ LeftClick(px, py)
        \/ RightClick(px, py)
        \/ OtherClick(px, py)

Spec == Init /\ [][Next]_vars

----------------------------------------------------------------------------
(* SpecFill: uncover as the steps of its recursion *)

\* FrameOffsets with a slip: the loop stops after half of the array.
FrameOffsets_first_half == 1 .. (Len(NEIGHBOR_OFFSETS) \div 2)

\* The offsets a frame of uncover loops over: for (i, j) in NEIGHBOR_OFFSETS.iter()
FrameOffsets == 1 .. Len(NEIGHBOR_OFFSETS)

\* A new frame of uncover(x, y). An offset that leads out of bounds is an
\* iteration without effect (coord_to_index is None): the frame keeps the others.
Frame(x, y) ==
    [x |-> x, y |-> y,
     rest |-> {k \in FrameOffsets :
                 IsSome(coord_to_index(x + NEIGHBOR_OFFSETS[k][1],
                                       y + NEIGHBOR_OFFSETS[k][2]))}]

\* The number of times uncover was entered in the call in progress.
Entries == SumTo(fill.entered, Width * Height - 1)

\* Entries is capped one above the number of cells.
MaxEntries == Width * Height + 1

\* grid.toggle_flag(x, y) between two uncover calls.
FillToggleFlag(x, y) ==
    /\ fill.phase # "running"
    /\ calls < MaxCalls
    /\ IsSome(coord_to_index(x, y))
    /\ calls' = calls + 1
    /\ cells' = toggle_flag(cells, x, y).cells
    /\ fill' = NoFill
    /\ UNCHANGED <<crashed, last, placed, overflow_checks, streak, gameVars>>

\* grid.uncover(x, y) is entered from outside: the target is exposed; a mine
\* reveals the mines and returns; a cell that expands starts its loop.
FillStart(x, y) ==
    /\ fill.phase # "running"
    /\ calls < MaxCalls
    /\ IsSome(coord_to_index(x, y))
    /\ calls' = calls + 1
    /\ LET index == Unwrap(coord_to_index(x, y))
           g1 == Expose(cells, index)
           f == [NoFill EXCEPT !.x = x, !.y = y,
                               !.pre = cells[index].state,
                               !.mine = cells[index].has_mine,
                               !.before = cells,
                               !.entered[index] = 1]
       IN  IF g1[index].has_mine = TRUE
           THEN /\ cells' = uncover_bombs(g1)
                /\ fill' = [f EXCEPT !.phase = "done"]
           ELSE /\ cells' = g1
                /\ fill' = IF Expands(g1[index])
                           THEN [f EXCEPT !.phase = "running", !.stack = << Frame(x, y) >>]
                           ELSE [f EXCEPT !.phase = "done"]
    /\ UNCHANGED <<crashed, last, placed, overflow_checks, streak, gameVars>>

\* One iteration of the loop of the innermost frame, for an offset k it has not
\* taken yet: a neighbour that is in bounds, Covered and without a mine is
\* entered (exposed, and given a frame of its own when it expands).
FillVisit(k) ==
    /\ fill.phase = "running"
    /\ LET d == Len(fill.stack)
           top == fill.stack[d]
           nx == top.x + NEIGHBOR_OFFSETS[k][1]
           ny == top.y + NEIGHBOR_OFFSETS[k][2]
           o == coord_to_index(nx, ny)
           taken == [fill.stack EXCEPT ![d].rest = @ \ {k}]
       IN  /\ k \in top.rest
           /\ IF IsSome(o) /\ RecurseInto(cells[Unwrap(o)])
              THEN LET g1 == Expose(cells, Unwrap(o))
                   IN  /\ Entries < MaxEntries
                       /\ cells' = g1
                       /\ fill' = [fill EXCEPT
                                     !.entered[Unwrap(o)] = @ + 1,
                                     !.stack = IF Expands(g1[Unwrap(o)])
                                               THEN Append(taken, Frame(nx, ny))
                                               ELSE taken]
              ELSE /\ cells' = cells
                   /\ fill' = [fill EXCEPT !.stack = taken]
    /\ UNCHANGED <<crashed, last, placed, overflow_checks, streak, calls, gameVars>>

\* The loop of the innermost frame is over: uncover returns to its caller.
FillReturn ==
    /\ fill.phase = "running"
    /\ fill.stack[Len(fill.stack)].rest = {}
    /\ fill' = [fill EXCEPT
                  !.stack = SubSeq(fill.stack, 1, Len(fill.stack) - 1),
                  !.phase = IF Len(fill.stack) = 1 THEN "done" ELSE "running"]
    /\ UNCHANGED <<cells, crashed, last, placed, overflow_checks, streak, calls, gameVars>>

\* The smallest offset the innermost frame has not taken: the one the loop of
\* the code takes next.
NextOffset ==
    LET rest == fill.stack[Len(fill.stack)].rest
    IN  CHOOSE k \in rest : \A j \in rest : k <= j

\* A step of the call in progress, the offsets of a frame taken in any order.
FillStepAnyOrder == (\E k \in FrameOffsets : FillVisit(k)) \/ FillReturn

\* A step of the call in progress, the offsets taken in the order of the array.
FillStep ==
    \/ \E k \in FrameOffsets :
          /\ fill.phase = "running"
          /\ fill.stack[Len(fill.stack)].rest # {}
          /\ k = NextOffset
          /\ FillVisit(k)
    \/ FillReturn

\* SpecFill: a board as main() leaves it, at most MaxFlags cells flagged on it,
\* then one uncover call whose loops take their offsets in any order.
NextFill ==
    \/ \E x \in 0 .. (Width - 1), y \in 0 .. (Height - 1) :
          \/ fill.phase = "idle" /\ calls < MaxFlags /\ FillToggleFlag(x, y)
          \/ fill.phase = "idle" /\ FillStart(x, y)
    \/ FillStepAnyOrder

SpecFill == Init /\ [][NextFill]_vars

\* SpecUncover: toggle_flag and uncover calls on a board as main() leaves it,
\* every uncover call run step by step in the order of the code.
NextUncover ==
    \/ \E x \in 0 .. (Width - 1), y \in 0 .. (Height - 1) :
          \/ FillToggleFlag(x, y)
          \/ FillStart(x, y)
    \/ FillStep

\* uncover is synchronous code: once entered it runs on until it returns.
SpecUncover == Init /\ [][NextUncover]_vars /\ WF_vars(FillStep)

----------------------------------------------------------------------------
(* Vocabulary of the properties *)

XOf(i) == i % Width
YOf(i) == i \div Width

Abs(n) == IF n < 0 THEN -n ELSE n

\* The in-bounds Moore neighbours of cell i, by distance and not by enumeration.
Moore(i) ==
    {j \in Indices : j # i /\ Abs(XOf(j) - XOf(i)) <= 1 /\ Abs(YOf(j) - YOf(i)) <= 1}

MinedNeighbours(g, i) == Cardinality({j \in Moore(i) : g[j].has_mine})

AllNonMinesExposed(g) == \A i \in Indices : ~g[i].has_mine => g[i].state = Exposed
AllMinesExposed(g) == \A i \in Indices : g[i].has_mine => g[i].state = Exposed

\* The latest call had an in-bounds target, and its index.
InBoundsCall(c) == IsSome(coord_to_index(c.x, c.y))
Target(c) == Unwrap(coord_to_index(c.x, c.y))

\* The least set of cells containing S and, with every cell of count 0 in it,
\* the neighbours of that cell that are Covered in g and have no mine.
RECURSIVE FloodClosure(_, _)
FloodClosure(g, S) ==
    LET T == S \cup {j \in Indices :
                       /\ g[j].state = Covered
                       /\ ~g[j].has_mine
                       /\ \E i \in S : g[i].neighboring_mines = 0 /\ j \in Moore(i)}
    IN  IF T = S THEN S ELSE FloodClosure(g, T)

ExposeAll(g, S) ==
    [i \in Indices |-> IF i \in S THEN [g[i] EXCEPT !.state = Exposed] ELSE g[i]]

Terminal(ps) == ps.kind \in {"Won", "Lost"}

----------------------------------------------------------------------------
(* Properties *)

\* C1: after place_mine calls on distinct in-bounds cells of a fresh board, the
\* neighboring_mines of every cell is the number of its in-bounds Moore
\* neighbours that have a mine.
C1_CountsMatchMines ==
    (\A i \in Indices : placed[i] <= 1)
        => \A i \in Indices : cells[i].neighboring_mines = MinedNeighbours(cells, i)

\* C2: uncover on an in-bounds Covered cell without a mine returns Cleared exactly
\* when every cell without a mine is Exposed after the call, InProgress otherwise.
C2_ClearedIffAllExposed ==
    (last.op = "uncover" /\ last.pre = Covered /\ ~last.mine)
        => /\ last.ret \in {Cleared, InProgress}
           /\ last.ret = Cleared <=> AllNonMinesExposed(cells)

\* C3: uncover on an in-bounds cell that is Flagged or Exposed changes no cell
\* and returns InProgress.
C3_UncoverFlaggedOrExposedIsNoOp ==
    [][(/\ last'.op = "uncover"
        /\ InBoundsCall(last')
        /\ cells[Target(last')].state \in {Flagged, Exposed})
           => (cells' = cells /\ last'.ret = InProgress)]_vars

\* C4: with an out-of-bounds coordinate get returns none, and uncover, toggle_flag
\* and place_mine return without a panic (uncover InProgress, toggle_flag 0); no
\* mouse event reaches a crashed state.
C4_OutOfBoundsIsNoOp ==
    /\ ~crashed
    /\ (last.op # "none" /\ ~InBoundsCall(last))
          => last.ret = (CASE last.op = "uncover" -> InProgress
                           [] last.op = "toggle_flag" -> 0
                           [] last.op = "place_mine" -> "unit"
                           [] OTHER -> "none")

\* C5: uncover on an in-bounds Covered cell that has a mine returns Detonated,
\* leaves every cell with a mine Exposed and changes the state of no other cell.
C5_DetonationExposesEveryMine ==
    [][(/\ last'.op = "uncover"
        /\ InBoundsCall(last')
        /\ cells[Target(last')].state = Covered
        /\ cells[Target(last')].has_mine)
           => /\ last'.ret = Detonated
              /\ \A i \in Indices :
                    IF cells[i].has_mine
                    THEN cells'[i].state = Exposed
                    ELSE cells'[i].state = cells[i].state]_vars

\* C5's case: a Covered mine was uncovered on a board with a second mine, while
\* a cell without a mine was Flagged (and has stayed so).
C5_Witness ==
    /\ last.op = "uncover" /\ last.pre = Covered /\ last.mine
    /\ last.ret = Detonated
    /\ \E i \in Indices : i # Target(last) /\ cells[i].has_mine
    /\ \E i \in Indices : ~cells[i].has_mine /\ cells[i].state = Flagged

\* C6: uncover on an in-bounds Covered cell without a mine exposes exactly the
\* flood closure of that cell and changes nothing else.
C6_UncoverExposesFloodClosure ==
    [][(/\ last'.op = "uncover"
        /\ InBoundsCall(last')
        /\ cells[Target(last')].state = Covered
        /\ ~cells[Target(last')].has_mine)
           => cells' = ExposeAll(cells, FloodClosure(cells, {Target(last')}))]_vars

\* C6's case: the fill started on a cell of count 0, exposed a cell of positive
\* count, and left a cell without a mine Covered.
C6_Witness ==
    /\ last.op = "uncover" /\ last.pre = Covered /\ ~last.mine
    /\ cells[Target(last)].neighboring_mines = 0
    /\ \E j \in Indices : /\ j # Target(last)
                          /\ ~cells[j].has_mine
                          /\ cells[j].neighboring_mines > 0
                          /\ cells[j].state = Exposed
    /\ \E k \in Indices : ~cells[k].has_mine /\ cells[k].state = Covered

\* C7: once play_state is Won(t) or Lost(t), no event changes it.
C7_TerminalIsAbsorbing ==
    [][Terminal(play_state) => play_state' = play_state]_vars

\* C8: once play_state is Won or Lost, a left-click on the playable area leaves
\* every cell of the board unchanged.
C8_TerminalLeftClickLeavesBoard ==
    [][(Terminal(play_state) /\ ev'.button = "left" /\ ev'.playable)
           => cells' = cells]_vars

\* C9: a left-click met in Unstarted or Playing that hits no mine and leaves every
\* cell without a mine Exposed ends in Won, with the time of the click.
C9_ClearingClickWins ==
    [][(/\ ev'.button = "left" /\ ev'.playable
        /\ ~Terminal(play_state)
        /\ ~crashed'
        /\ ~last'.mine
        /\ AllNonMinesExposed(cells'))
           => play_state' = Won(now')]_vars

\* C10: the turn counter is the number of left-clicks on the playable area that
\* were delivered while play_state was Unstarted or Playing.
C10_TurnsCountProcessedClicks == turns = eligible

\* C11: a left-click on the playable area met in Unstarted moves play_state to
\* Playing(time of the click) before uncover is applied; play_state is Unstarted
\* exactly while no such click has been processed, never returns to Unstarted,
\* and Won or Lost is entered only from Playing.
C11_ClockStartsBeforeUncover ==
    [][/\ (ev'.button = "left" /\ ev'.playable /\ play_state = Unstarted)
            => /\ ev'.mid.kind = "Playing"
               /\ now <= ev'.mid.time /\ ev'.mid.time <= now'
               /\ play_state' = AfterUncover(ev'.mid, last'.ret, now')
       /\ (play_state' = Unstarted) <=> (eligible' = 0)
       /\ play_state # Unstarted => play_state' # Unstarted
       /\ (Terminal(play_state') /\ play_state'.kind # play_state.kind)
            => ev'.mid.kind = "Playing"]_vars

\* C11's case: the first left-click hit a mine: Lost was entered in the event
\* that met Unstarted, through Playing.
C11_Witness ==
    /\ ev.button = "left" /\ ev.playable /\ ev.pre = "Unstarted"
    /\ ev.mid.kind = "Playing"
    /\ play_state.kind = "Lost"
    /\ turns = 1

\* C12: toggle_flag on an in-bounds cell returns +1 and flags a Covered cell,
\* returns -1 and covers a Flagged cell, returns 0 and leaves an Exposed cell; no
\* other cell changes, and no has_mine or neighboring_mines changes.
C12_ToggleFlagByState ==
    [][(last'.op = "toggle_flag" /\ InBoundsCall(last'))
           => LET t == Target(last')
              IN  /\ cells[t].state = Covered
                        => (last'.ret = 1 /\ cells'[t].state = Flagged)
                  /\ cells[t].state = Flagged
                        => (last'.ret = -1 /\ cells'[t].state = Covered)
                  /\ cells[t].state = Exposed
                        => (last'.ret = 0 /\ cells'[t].state = Exposed)
                  /\ \A i \in Indices \ {t} : cells'[i] = cells[i]
                  /\ cells'[t].has_mine = cells[t].has_mine
                  /\ cells'[t].neighboring_mines = cells[t].neighboring_mines]_vars

\* C12's case: toggle_flag was called on an Exposed cell while another cell was
\* Flagged.
C12_Witness ==
    /\ last.op = "toggle_flag" /\ last.pre = Exposed
    /\ last.ret = 0
    /\ \E i \in Indices : cells[i].state = Flagged

\* C13: two toggle_flag calls in a row on one in-bounds cell that was Covered
\* leave the board as it was before the first, and their deltas sum to 0.
C13_ToggleTwiceRestores ==
    streak.n = 2 => (cells = streak.before /\ streak.sum = 0)

\* C13's case: the second of two such calls has returned, on a board that has
\* an Exposed cell.
C13_Witness ==
    /\ streak.n = 2
    /\ last.op = "toggle_flag" /\ last.pre = Flagged
    /\ \E i \in Indices : cells[i].state = Exposed

\* C14: a right-click changes neither play_state nor the turn counter, in any
\* play state; total_flags becomes total_flags + delta, delta being what
\* toggle_flag returned for the clicked cell (+1 Covered, -1 Flagged, 0 Exposed).
C14_RightClickFrame ==
    [][ev'.button = "right"
           => /\ play_state' = play_state
              /\ turns' = turns
              /\ total_mines' = total_mines
              /\ IF crashed'
                 THEN total_flags' = total_flags
                 ELSE /\ total_flags' = total_flags + last'.ret
                      /\ last'.op = "toggle_flag"
                      /\ last'.ret = (CASE cells[Target(last')].state = Covered -> 1
                                        [] cells[Target(last')].state = Flagged -> -1
                                        [] OTHER -> 0)]_vars

\* C14's case: a right-click delivered after the game was lost flagged a cell.
C14_Witness ==
    /\ ev.button = "right" /\ ev.pre = "Lost"
    /\ last.op = "toggle_flag" /\ last.pre = Covered
    /\ play_state.kind = "Lost"
    /\ total_flags = 1

\* C15: place_mine on an in-bounds cell that already has a mine leaves every
\* has_mine and every neighboring_mines as it was.
C15_PlaceMineIdempotent ==
    [][(/\ last'.op = "place_mine"
        /\ InBoundsCall(last')
        /\ cells[Target(last')].has_mine)
           => cells' = cells]_vars

\* C16: on a board whose mines were placed on distinct cells, uncover on an
\* in-bounds Covered cell without a mine that has a mined Moore neighbour returns
\* InProgress and exposes that cell only.
C16_MinedNeighbourStopsFill ==
    [][(/\ last'.op = "uncover"
        /\ InBoundsCall(last')
        /\ \A i \in Indices : placed[i] <= 1
        /\ cells[Target(last')].state = Covered
        /\ ~cells[Target(last')].has_mine
        /\ MinedNeighbours(cells, Target(last')) >= 1)
           => /\ cells' = ExposeAll(cells, {Target(last')})
              /\ last'.ret = InProgress]_vars

\* C17: for a board and an in-bounds Covered start cell without a mine, uncover
\* ends with the same cells in whatever order the neighbours of each expanded
\* cell are visited: the cells the order of the code gives.
C17_FillIsConfluent ==
    (fill.phase = "done" /\ fill.pre = Covered /\ ~fill.mine)
        => cells = uncover_cells(fill.before, fill.x, fill.y)

\* C17's case: a fill that entered at least three cells has ended on a board
\* with a mine and a Flagged cell.
C17_Witness ==
    /\ fill.phase = "done" /\ fill.pre = Covered /\ ~fill.mine
    /\ Entries >= 3
    /\ \E i \in Indices : cells[i].has_mine
    /\ \E i \in Indices : cells[i].state = Flagged

\* C18: every uncover call on an in-bounds cell returns; in one call no cell is
\* entered more than once, so uncover is entered at most Width * Height times.
C18_UncoverTerminates ==
    /\ [](\A i \in Indices : fill.entered[i] <= 1)
    /\ [](Entries <= Width * Height)
    /\ (fill.phase = "running") ~> (fill.phase = "done")

\* C18's case: a call that entered every cell of the board has returned.
C18_Witness ==
    /\ fill.phase = "done"
    /\ Entries = Width * Height

\* C19: uncover(x, y) on a Covered cell without a mine leaves every other cell
\* that was Flagged as it was, and the fill does not pass through such a cell:
\* each other cell the call exposes is next to a cell of count 0 without a mine
\* that the call exposed and that was not Flagged.
C19_FillLeavesFlagged ==
    [][(/\ last'.op = "uncover"
        /\ InBoundsCall(last')
        /\ cells[Target(last')].state = Covered
        /\ ~cells[Target(last')].has_mine)
           => /\ \A i \in Indices \ {Target(last')} :
                    cells[i].state = Flagged => cells'[i] = cells[i]
              /\ \A j \in Indices \ {Target(last')} :
                    (cells[j].state # Exposed /\ cells'[j].state = Exposed)
                        => \E i \in Moore(j) :
                              /\ cells[i].state # Flagged
                              /\ cells'[i].state = Exposed
                              /\ i = Target(last') \/ cells[i].state = Covered
                              /\ Expands(cells[i])]_vars

\* C19's case: a cell was flagged, then a fill from another cell exposed a
\* cell of count 0 next to the Flagged cell, which has no mine and is still Flagged.
C19_Witness ==
    /\ calls = 2
    /\ last.op = "uncover" /\ last.pre = Covered /\ ~last.mine
    /\ \E j \in Indices \ {Target(last)} :
          /\ cells[j].state = Flagged
          /\ ~cells[j].has_mine
          /\ \E i \in Moore(j) : cells[i].state = Exposed /\ Expands(cells[i])

\* C20: no call takes a mine off a cell, the board keeps its cells, and a call
\* other than place_mine (uncover, uncover_bombs, toggle_flag, get)
\* leaves has_mine and neighboring_mines of every cell as they were.
C20_OnlyPlaceMineWritesMines ==
    [][/\ DOMAIN cells' = DOMAIN cells
       /\ \A i \in Indices : cells[i].has_mine => cells'[i].has_mine
       /\ last'.op # "place_mine"
             => \A i \in Indices :
                   /\ cells'[i].has_mine = cells[i].has_mine
                   /\ cells'[i].neighboring_mines = cells[i].neighboring_mines]_vars

\* C20's case: uncover hit a mine and ran uncover_bombs; the mine is still on
\* its cell and a cell still has a positive count.
C20_Witness ==
    /\ last.op = "uncover" /\ InBoundsCall(last) /\ last.mine
    /\ cells[Target(last)].has_mine
    /\ cells[Target(last)].state = Exposed
    /\ \E i \in Indices : cells[i].neighboring_mines > 0

\* The indices get_neighbors returns, as a set.
NeighbourSet(x, y) == {get_neighbors(x, y)[k] : k \in 1 .. Len(get_neighbors(x, y))}

\* C21: for every in-bounds cell, (0,0) included, get_neighbors returns the
\* in-board cells at the 8 offsets around it, each once and never the cell
\* itself. Stated of the cell of the latest place_mine, which calls it.
C21_NeighboursAreMoore ==
    (last.op = "place_mine" /\ InBoundsCall(last))
        => /\ NeighbourSet(last.x, last.y) = Moore(Target(last))
           /\ Len(get_neighbors(last.x, last.y)) = Cardinality(Moore(Target(last)))

\* The number of cells that are Flagged.
FlaggedCells == Cardinality({i \in Indices : cells[i].state = Flagged})

\* C22: after any sequence of clicks from a fresh game total_flags is the
\* number of Flagged cells, so it is in 0 .. Width * Height.
C22_TotalFlagsCountsFlagged ==
    /\ total_flags = FlaggedCells
    /\ total_flags >= 0
    /\ total_flags <= Width * Height

\* C23: a cell that is Exposed stays Exposed through every call of the Grid
\* (uncover, uncover_bombs, toggle_flag, place_mine, get).
C23_ExposedIsAbsorbing ==
    [][\A i \in Indices :
          cells[i].state = Exposed => cells'[i].state = Exposed]_vars

\* C23's case: toggle_flag was called on a cell that was Exposed, and the cell
\* is Exposed.
C23_Witness ==
    /\ last.op = "toggle_flag" /\ InBoundsCall(last)
    /\ last.pre = Exposed
    /\ cells[Target(last)].state = Exposed

\* The cells that have a mine.
MinedCells == {i \in Indices : cells[i].has_mine}

\* C24: in every state reached by clicks from a fresh game, some mined cell is
\* Exposed exactly when play_state is Lost, and then every mined cell is Exposed.
C24_MineExposedIffLost ==
    /\ (\E i \in MinedCells : cells[i].state = Exposed) <=> play_state.kind = "Lost"
    /\ play_state.kind = "Lost" => \A i \in MinedCells : cells[i].state = Exposed

\* C24's case: the game is Lost on a board with two mines, and a click was
\* made after the one that lost it.
C24_Witness ==
    /\ play_state.kind = "Lost"
    /\ Cardinality(MinedCells) >= 2
    /\ turns >= 2
    /\ last.op = "uncover" /\ last.ret = InProgress

====
